---- MODULE Spec2Model ----
(***************************************************************************)
(* Tic-Tac-Toe environment (gym/envs/board_game/tictactoe.py).             *)
(*                                                                         *)
(* The board is the numpy array state[layer, row, col] of shape (3,3,3):   *)
(* layer 0 holds the Circle marks, layer 1 the Cross marks, layer 2 the    *)
(* empty cells.  A session is one TicTacToeEnv object; the caller drives   *)
(* it with reset() and step(action).                                      *)
(***************************************************************************)
EXTENDS Integers, Sequences, FiniteSets

VARIABLES
    state,              \* self.state: the 3x3x3 board
    to_play,            \* self.to_play
    done,               \* self.done
    player_color,       \* self.player_color (fixed at construction)
    illegal_move_mode,  \* self.illegal_move_mode (fixed at construction)
    opponent_policy,    \* self.opponent_policy: "unbound" until _seed binds it
    constructed,        \* TRUE iff __init__ returned an object to the caller
    ret,                \* the last call: what it was given, what it returned,
                        \* and what it found (terminal flag, marks on the
                        \* board, legality of the action)
    rng,                \* self.np_random: the state of the generator.  It is
                        \* followed in the seeded sessions only; elsewhere the
                        \* policy's draws are arbitrary and rng stays 0
    twin                \* a second session of the same side and mode, driven
                        \* by the same calls (seeded sessions only)

vars == <<state, to_play, done, player_color, illegal_move_mode,
          opponent_policy, constructed, ret, rng, twin>>

----------------------------------------------------------------------------
(* Class constants and helper values *)

CIRCLE == 0
CROSS == 1

\* Python's None, as returned by random_policy when no cell is free
None == -1

\* game_finished raising error.Error (both players hold a line)
GF_RAISE == 2

\* sizes of the seeded sessions: seeds 0..MaxSeed, generator states 0..RngMod-1
MaxSeed == 3
RngMod == 8

Seeds == 0..MaxSeed
RngStates == 0..(RngMod - 1)

\* no second session
NoTwin == <<>>

Colors == {CIRCLE, CROSS}
Modes == {"lose", "raise"}
Actions == 0..8
Index == (0..2) \X (0..2) \X (0..2)

\* np.zeros((3, 3, 3)); state[2, :, :] = 1
EmptyBoard == [p \in Index |-> IF p[1] = 2 THEN 1 ELSE 0]

\* What a bare `raise` with no exception object produces: RuntimeError on
\* Python 3, TypeError on Python 2, or the exception the caller happens to be
\* handling at the time.
BareRaise == {"RuntimeError", "TypeError", "Reraised"}

----------------------------------------------------------------------------
(* Static methods of TicTacToeEnv *)

\* action_to_coordinate with quotient and remainder exchanged
action_to_coordinate_swapped(action) == <<action % 3, action \div 3>>

action_to_coordinate(action) == <<action \div 3, action % 3>>

\* coordinate_to_action with row and column exchanged
coordinate_to_action_transposed(coords) == coords[2] * 3 + coords[1]

coordinate_to_action(coords) == coords[1] * 3 + coords[2]

valid_move(board, action) ==
    LET coords == action_to_coordinate(action)
    IN  board[<<2, coords[1], coords[2]>>] = 1

\* make_move that sets the player's layer and forgets to clear the empty layer
make_move_keep_empty(board, action, player) ==
    LET coords == action_to_coordinate(action)
    IN  [board EXCEPT ![<<player, coords[1], coords[2]>>] = 1]

make_move(board, action, player) ==
    LET coords == action_to_coordinate(action)
        b1 == [board EXCEPT ![<<2, coords[1], coords[2]>>] = 0]
    IN  [b1 EXCEPT ![<<player, coords[1], coords[2]>>] = 1]

\* the index pairs of a 3x3 array in the order np.where reports them
RowMajor == [k \in 1..9 |-> <<(k - 1) \div 3, (k - 1) % 3>>]

IsFree(board, c) == board[<<2, c[1], c[2]>>] = 1

get_possible_actions(board) ==
    LET free == SelectSeq(RowMajor, LAMBDA c : IsFree(board, c))
    IN  [i \in 1..Len(free) |-> coordinate_to_action(free[i])]

\* win_lines with the last diagonal mistyped as the first
win_lines_typo ==
    << << <<0, 0>>, <<0, 1>>, <<0, 2>> >>,
       << <<1, 0>>, <<1, 1>>, <<1, 2>> >>,
       << <<2, 0>>, <<2, 1>>, <<2, 2>> >>,
       << <<0, 0>>, <<1, 0>>, <<2, 0>> >>,
       << <<0, 1>>, <<1, 1>>, <<2, 1>> >>,
       << <<0, 2>>, <<1, 2>>, <<2, 2>> >>,
       << <<0, 0>>, <<1, 1>>, <<2, 2>> >>,
       << <<0, 0>>, <<1, 1>>, <<2, 2>> >> >>

win_lines ==
    << << <<0, 0>>, <<0, 1>>, <<0, 2>> >>,
       << <<1, 0>>, <<1, 1>>, <<1, 2>> >>,
       << <<2, 0>>, <<2, 1>>, <<2, 2>> >>,
       << <<0, 0>>, <<1, 0>>, <<2, 0>> >>,
       << <<0, 1>>, <<1, 1>>, <<2, 1>> >>,
       << <<0, 2>>, <<1, 2>>, <<2, 2>> >>,
       << <<0, 0>>, <<1, 1>>, <<2, 2>> >>,
       << <<0, 2>>, <<1, 1>>, <<2, 0>> >> >>

\* cur?win for one line: the product of the layer's entries at its positions
RECURSIVE LineProduct(_, _, _, _)
LineProduct(board, layer, line, i) ==
    IF i > Len(line) THEN 1
    ELSE board[<<layer>> \o line[i]] * LineProduct(board, layer, line, i + 1)

\* ?win: the sum over the lines of the line products
RECURSIVE WinCount(_, _, _, _)
WinCount(board, layer, lines, i) ==
    IF i > Len(lines) THEN 0
    ELSE LineProduct(board, layer, lines[i], 1) + WinCount(board, layer, lines, i + 1)

game_finished(board) ==
    LET owin == WinCount(board, 0, win_lines, 1)
        xwin == WinCount(board, 1, win_lines, 1)
    IN  IF xwin = 0 /\ owin = 0 THEN 0
        ELSE IF xwin > 0 /\ owin = 0 THEN -1
        ELSE IF xwin = 0 /\ owin > 0 THEN 1
        ELSE GF_RAISE

\* random_policy drawing from randint(len(possible_moves) - 1)
random_policy_short(board) ==
    LET possible_moves == get_possible_actions(board)
    IN  IF Len(possible_moves) = 0 THEN {None}
        ELSE {possible_moves[a + 1] : a \in 0..(Len(possible_moves) - 2)}

\* random_policy(state): every value np_random.randint can select
random_policy(board) ==
    LET possible_moves == get_possible_actions(board)
    IN  IF Len(possible_moves) = 0 THEN {None}
        ELSE {possible_moves[a + 1] : a \in 0..(Len(possible_moves) - 1)}

----------------------------------------------------------------------------
(* _reset and _step, as the sets of results they can produce *)

\* _reset that lets the opponent open and leaves to_play at CIRCLE
reset_results_turn_kept(color, policy) ==
    IF color # CIRCLE
    THEN {[state |-> make_move(EmptyBoard, a, CIRCLE), to_play |-> CIRCLE,
           done |-> FALSE, fault |-> "none"]
          : a \in random_policy(EmptyBoard)}
    ELSE {[state |-> EmptyBoard, to_play |-> CIRCLE, done |-> FALSE,
           fault |-> "none"]}

\* _reset run on a session of side `color` whose opponent_policy attribute is
\* `policy`: the attributes it leaves behind and the fault it ends with
reset_results(color, policy) ==
    IF color # CIRCLE
    THEN IF policy = "unbound"
         THEN {[state |-> EmptyBoard, to_play |-> CIRCLE, done |-> FALSE,
                fault |-> "AttributeError"]}
         ELSE {IF a = None
               THEN [state |-> EmptyBoard, to_play |-> CIRCLE, done |-> FALSE,
                     fault |-> "TypeError"]
               ELSE [state |-> make_move(EmptyBoard, a, CIRCLE), to_play |-> CROSS,
                     done |-> FALSE, fault |-> "none"]
               : a \in random_policy(EmptyBoard)}
    ELSE {[state |-> EmptyBoard, to_play |-> CIRCLE, done |-> FALSE,
           fault |-> "none"]}

\* illegal_move whose "lose" branch returns the loss without setting self.done
illegal_move_unflagged(board, dn, mode) ==
    IF mode = "raise"
    THEN {[state |-> board, done |-> dn, reward |-> 0, rdone |-> FALSE, fault |-> f]
          : f \in BareRaise}
    ELSE {[state |-> board, done |-> dn, reward |-> -1, rdone |-> TRUE,
           fault |-> "none"]}

\* the branch of _step taken on an illegal action
illegal_move(board, dn, mode) ==
    IF mode = "raise"
    THEN {[state |-> board, done |-> dn, reward |-> 0, rdone |-> FALSE, fault |-> f]
          : f \in BareRaise}
    ELSE IF mode = "lose"
    THEN {[state |-> board, done |-> TRUE, reward |-> -1, rdone |-> TRUE,
           fault |-> "none"]}
    ELSE {[state |-> board, done |-> dn, reward |-> 0, rdone |-> FALSE,
           fault |-> "Error"]}

\* opponent_reply made whenever the policy returned a move
opponent_reply_always(board, a, ongoing, color) ==
    IF a # None
    THEN make_move(board, a, 1 - color)
    ELSE board

\* opponent_reply that marks the reply with the agent's own colour
opponent_reply_own_color(board, a, ongoing, color) ==
    IF a # None /\ ongoing
    THEN make_move(board, a, color)
    ELSE board

\* the opponent's reply: made if there are moves left and the game is ongoing
\* (`ongoing` is game_finished(board) == 0)
opponent_reply(board, a, ongoing, color) ==
    IF a # None /\ ongoing
    THEN make_move(board, a, 1 - color)
    ELSE board

\* the raw score seen from the agent's side
agent_reward(raw, color) == IF color = CROSS THEN -raw ELSE raw

\* is_done that ends the episode on a win of the agent only
is_done_win_only(reward) == reward > 0

\* self.done = reward != 0
is_done(reward) == reward # 0

\* finish_step that starts a fresh board as soon as the episode is over
finish_step_autoreset(board, dn, color) ==
    LET raw == game_finished(board)
        reward == agent_reward(raw, color)
    IN  IF raw = GF_RAISE
        THEN [state |-> board, done |-> dn, reward |-> 0, rdone |-> FALSE,
              fault |-> "Error"]
        ELSE [state |-> IF is_done(reward) THEN EmptyBoard ELSE board,
              done |-> is_done(reward), reward |-> reward,
              rdone |-> is_done(reward), fault |-> "none"]

\* the tail of _step: evaluate the board and build the returned tuple
finish_step(board, dn, color) ==
    LET raw == game_finished(board)
        reward == agent_reward(raw, color)
    IN  IF raw = GF_RAISE
        THEN [state |-> board, done |-> dn, reward |-> 0, rdone |-> FALSE,
              fault |-> "Error"]
        ELSE [state |-> board, done |-> is_done(reward), reward |-> reward,
              rdone |-> is_done(reward), fault |-> "none"]

\* _step from the point where the policy has returned `a` for the board s1
\* (`g1` is game_finished(s1), read only when a is not None)
after_policy(s1, g1, dn, color, a) ==
    IF a # None /\ g1 = GF_RAISE
    THEN [state |-> s1, done |-> dn, reward |-> 0, rdone |-> FALSE,
          fault |-> "Error"]
    ELSE finish_step(opponent_reply(s1, a, g1 = 0, color), dn, color)

\* the legal-move branch of _step followed by the opponent's play
legal_move(board, dn, color, action) ==
    LET s1 == make_move(board, action, color)
        g1 == game_finished(s1)
    IN  {after_policy(s1, g1, dn, color, a) : a \in random_policy(s1)}

\* step_results without the early return on a terminal session
step_results_no_terminal_check(board, tp, dn, color, mode, action) ==
    IF tp # color
    THEN {[state |-> board, done |-> dn, reward |-> 0, rdone |-> FALSE,
           fault |-> "AssertionError"]}
    ELSE IF ~valid_move(board, action)
    THEN illegal_move(board, dn, mode)
    ELSE legal_move(board, dn, color, action)

step_results(board, tp, dn, color, mode, action) ==
    IF tp # color
    THEN {[state |-> board, done |-> dn, reward |-> 0, rdone |-> FALSE,
           fault |-> "AssertionError"]}
    ELSE IF dn
    THEN {[state |-> board, done |-> dn, reward |-> 0, rdone |-> TRUE,
           fault |-> "none"]}
    ELSE IF ~valid_move(board, action)
    THEN illegal_move(board, dn, mode)
    ELSE legal_move(board, dn, color, action)

----------------------------------------------------------------------------
(* The seeded random source *)

\* seeding.np_random(seed): the generator state a seed yields
np_random(seed) == seed % RngMod

\* np_random.randint(n) drawn in generator state g, and the state it leaves
randint(g, n) == g % n
rng_next(g) == (5 * g + 3) % RngMod

\* random_policy drawing from a generator other than the session's np_random
seeded_policy_global(board, g) == random_policy(board)

\* random_policy(state) on the session's generator in state g
seeded_policy(board, g) ==
    LET possible_moves == get_possible_actions(board)
    IN  IF Len(possible_moves) = 0 THEN {None}
        ELSE {possible_moves[randint(g, Len(possible_moves)) + 1]}

\* the generator after random_policy(state): one draw unless no move is left
policy_rng(board, g) ==
    IF Len(get_possible_actions(board)) = 0 THEN g ELSE rng_next(g)

\* _reset on a session whose generator is in state g
seeded_reset(color, policy, g) ==
    IF color # CIRCLE /\ policy # "unbound"
    THEN {IF a = None
          THEN [state |-> EmptyBoard, to_play |-> CIRCLE, done |-> FALSE,
                fault |-> "TypeError", rng |-> policy_rng(EmptyBoard, g)]
          ELSE [state |-> make_move(EmptyBoard, a, CIRCLE), to_play |-> CROSS,
                done |-> FALSE, fault |-> "none",
                rng |-> policy_rng(EmptyBoard, g)]
          : a \in seeded_policy(EmptyBoard, g)}
    ELSE {[state |-> r.state, to_play |-> r.to_play, done |-> r.done,
           fault |-> r.fault, rng |-> g] : r \in reset_results(color, policy)}

\* _step on a session whose generator is in state g
seeded_step(board, tp, dn, color, mode, action, g) ==
    IF tp = color /\ ~dn /\ valid_move(board, action)
    THEN LET s1 == make_move(board, action, color)
             g1 == game_finished(s1)
         IN  {[r |-> after_policy(s1, g1, dn, color, a), rng |-> policy_rng(s1, g)]
              : a \in seeded_policy(s1, g)}
    ELSE {[r |-> x, rng |-> g]
          : x \in step_results(board, tp, dn, color, mode, action)}

----------------------------------------------------------------------------
(* The session *)

\* number of cells whose empty-layer entry is not 1
marks(board) == Cardinality({c \in (0..2) \X (0..2) : ~IsFree(board, c)})

\* __init__(player_color, 'random', 'numpy3c', illegal_move_mode) entered with
\* the opponent_policy attribute `policy`: reset() runs first, _seed() after it
construct(color, mode, policy) ==
    \E r \in reset_results(color, policy) :
        /\ state = r.state
        /\ to_play = r.to_play
        /\ done = r.done
        /\ player_color = color
        /\ illegal_move_mode = mode
        /\ opponent_policy = IF r.fault = "none" THEN "random" ELSE policy
        /\ constructed = (r.fault = "none")
        /\ ret = [op |-> "__init__", action |-> None, reward |-> 0, done |-> FALSE,
                  fault |-> r.fault, pre_done |-> FALSE, pre_marks |-> 0,
                  legal |-> FALSE]

\* The environment as written: no policy is bound when __init__ starts.
Init ==
    /\ \E color \in Colors, mode \in Modes : construct(color, mode, "unbound")
    /\ rng = 0
    /\ twin = NoTwin

\* Sessions whose opponent policy is already bound when reset() first runs.
\* Every session Init yields to a caller is among them.
InitBound ==
    /\ \E color \in Colors, mode \in Modes : construct(color, mode, "random")
    /\ rng = 0
    /\ twin = NoTwin

Reset ==
    /\ constructed
    /\ \E r \in reset_results(player_color, opponent_policy) :
        /\ state' = r.state
        /\ to_play' = r.to_play
        /\ done' = r.done
        /\ ret' = [op |-> "reset", action |-> None, reward |-> 0, done |-> FALSE,
                   fault |-> r.fault, pre_done |-> done,
                   pre_marks |-> marks(state), legal |-> FALSE]
    /\ UNCHANGED <<player_color, illegal_move_mode, opponent_policy, constructed,
                   rng, twin>>

\* step(action); `noted` says whether the call record keeps the action of a
\* step that went on to mark its cell
step_call(noted) ==
    /\ constructed
    /\ \E action \in Actions :
       \E r \in step_results(state, to_play, done, player_color,
                             illegal_move_mode, action) :
        /\ state' = r.state
        /\ done' = r.done
        /\ ret' = [op |-> "step", action |-> IF noted /\ ~done /\ valid_move(state, action)
                                THEN action ELSE None,
                   reward |-> r.reward,
                   done |-> r.rdone, fault |-> r.fault, pre_done |-> done,
                   pre_marks |-> marks(state),
                   legal |-> valid_move(state, action)]
    /\ UNCHANGED <<to_play, player_color, illegal_move_mode, opponent_policy,
                   constructed, rng, twin>>

Step == step_call(FALSE)

Next == Reset \/ Step

Spec == Init /\ [][Next]_vars

SpecBound == InitBound /\ [][Next]_vars

\* the same sessions, with the action of each legal step kept in the call
\* record
StepNoted == step_call(TRUE)

NextNoted == Reset \/ StepNoted

SpecNoted == InitBound /\ [][NextNoted]_vars

\* Two sessions of the same side and mode, built as __init__ builds them (each
\* generator seeded from system entropy by the _seed() of line 65), then given
\* the same seed and the same calls.
InitSeeded ==
    /\ \E color \in Colors, mode \in Modes : construct(color, mode, "unbound")
    /\ rng \in RngStates
    /\ \E g \in RngStates :
       \E r \in reset_results(player_color, "unbound") :
        twin = [state |-> r.state, to_play |-> r.to_play, done |-> r.done,
                rng |-> g, reward |-> 0, rdone |-> FALSE,
                constructed |-> (r.fault = "none"), seeded |-> FALSE]

\* seed(k) on both sessions, the first call made on either
SeedBoth ==
    /\ constructed
    /\ twin.constructed
    /\ ~twin.seeded
    /\ \E k \in Seeds :
        /\ rng' = np_random(k)
        /\ twin' = [twin EXCEPT !.rng = np_random(k), !.seeded = TRUE,
                                !.reward = 0, !.rdone = FALSE]
    /\ opponent_policy' = "random"
    /\ ret' = [op |-> "seed", action |-> None, reward |-> 0, done |-> FALSE,
               fault |-> "none", pre_done |-> done, pre_marks |-> marks(state),
               legal |-> FALSE]
    /\ UNCHANGED <<state, to_play, done, player_color, illegal_move_mode,
                   constructed>>

\* reset() on both sessions
ResetBoth ==
    /\ constructed
    /\ twin.seeded
    /\ \E r \in seeded_reset(player_color, opponent_policy, rng) :
       \E r2 \in seeded_reset(player_color, opponent_policy, twin.rng) :
        /\ state' = r.state
        /\ to_play' = r.to_play
        /\ done' = r.done
        /\ rng' = r.rng
        /\ ret' = [op |-> "reset", action |-> None, reward |-> 0, done |-> FALSE,
                   fault |-> r.fault, pre_done |-> done,
                   pre_marks |-> marks(state), legal |-> FALSE]
        /\ twin' = [twin EXCEPT !.state = r2.state, !.to_play = r2.to_play,
                                !.done = r2.done, !.rng = r2.rng,
                                !.reward = 0, !.rdone = FALSE]
    /\ UNCHANGED <<player_color, illegal_move_mode, opponent_policy, constructed>>

\* step(action) on both sessions, with the same action
StepBoth ==
    /\ constructed
    /\ twin.seeded
    /\ \E action \in Actions :
       \E r \in seeded_step(state, to_play, done, player_color,
                             illegal_move_mode, action, rng) :
       \E r2 \in seeded_step(twin.state, twin.to_play, twin.done, player_color,
                              illegal_move_mode, action, twin.rng) :
        /\ state' = r.r.state
        /\ done' = r.r.done
        /\ rng' = r.rng
        /\ ret' = [op |-> "step", action |-> None, reward |-> r.r.reward,
                   done |-> r.r.rdone, fault |-> r.r.fault, pre_done |-> done,
                   pre_marks |-> marks(state),
                   legal |-> valid_move(state, action)]
        /\ twin' = [twin EXCEPT !.state = r2.r.state, !.done = r2.r.done,
                                !.rng = r2.rng, !.reward = r2.r.reward,
                                !.rdone = r2.r.rdone]
    /\ UNCHANGED <<to_play, player_color, illegal_move_mode, opponent_policy,
                   constructed>>

NextSeeded == SeedBoth \/ ResetBoth \/ StepBoth

SpecSeeded == InitSeeded /\ [][NextSeeded]_vars

\* game_finished applied to an arbitrary one-hot board
OneHotBoards ==
    {[p \in Index |-> IF f[<<p[2], p[3]>>] = p[1] THEN 1 ELSE 0] :
        f \in [(0..2) \X (0..2) -> 0..2]}

InitEval ==
    /\ state \in OneHotBoards
    /\ to_play = CIRCLE
    /\ done = FALSE
    /\ player_color = CIRCLE
    /\ illegal_move_mode = "raise"
    /\ opponent_policy = "unbound"
    /\ constructed = FALSE
    /\ rng = 0
    /\ twin = NoTwin
    /\ ret = [op |-> "none", action |-> None, reward |-> 0, done |-> FALSE,
              fault |-> "none", pre_done |-> FALSE, pre_marks |-> marks(state),
              legal |-> FALSE]

Evaluate ==
    /\ ret.op = "none"
    /\ ret' = [ret EXCEPT !.op = "game_finished", !.reward = game_finished(state),
                          !.fault = IF game_finished(state) = GF_RAISE
                                    THEN "Error" ELSE "none"]
    /\ UNCHANGED <<state, to_play, done, player_color, illegal_move_mode,
                   opponent_policy, constructed, rng, twin>>

\* random_policy applied to the board: one value it can return
Sample ==
    /\ ret.op = "none"
    /\ \E a \in random_policy(state) :
        ret' = [ret EXCEPT !.op = "random_policy", !.action = a]
    /\ UNCHANGED <<state, to_play, done, player_color, illegal_move_mode,
                   opponent_policy, constructed, rng, twin>>

NextEval == Evaluate \/ Sample

SpecEval == InitEval /\ [][NextEval]_vars

\* the two coordinate mappings applied to an action and to a (row, col) pair
InitCoord ==
    /\ state = EmptyBoard
    /\ to_play = CIRCLE
    /\ done = FALSE
    /\ player_color = CIRCLE
    /\ illegal_move_mode = "raise"
    /\ opponent_policy = "unbound"
    /\ constructed = FALSE
    /\ rng = 0
    /\ twin = NoTwin
    /\ \E a \in Actions, c \in (0..2) \X (0..2) :
        ret = [op |-> "none", action |-> a, coords |-> c,
               to_coords |-> <<0, 0>>, to_action |-> 0]

Convert ==
    /\ ret.op = "none"
    /\ ret' = [ret EXCEPT !.op = "convert",
                          !.to_coords = action_to_coordinate(ret.action),
                          !.to_action = coordinate_to_action(ret.coords)]
    /\ UNCHANGED <<state, to_play, done, player_color, illegal_move_mode,
                   opponent_policy, constructed, rng, twin>>

SpecCoord == InitCoord /\ [][Convert]_vars

----------------------------------------------------------------------------
(* Vocabulary of the properties *)

Cells == (0..2) \X (0..2)

IsCircle(board, c) == board[<<0, c[1], c[2]>>] = 1
IsCross(board, c) == board[<<1, c[1], c[2]>>] = 1
IsEmpty(board, c) == board[<<2, c[1], c[2]>>] = 1

CircleMarks(board) == Cardinality({c \in Cells : IsCircle(board, c)})
CrossMarks(board) == Cardinality({c \in Cells : IsCross(board, c)})
EmptyCells(board) == Cardinality({c \in Cells : IsEmpty(board, c)})

\* the 8 lines of the grid: 3 rows, 3 columns, 2 diagonals
Lines ==
    {{<<r, c>> : c \in 0..2} : r \in 0..2}
    \cup {{<<r, c>> : r \in 0..2} : c \in 0..2}
    \cup {{<<i, i>> : i \in 0..2}, {<<i, 2 - i>> : i \in 0..2}}

CircleLine(board) == \E l \in Lines : \A c \in l : IsCircle(board, c)
CrossLine(board) == \E l \in Lines : \A c \in l : IsCross(board, c)

\* the line held by side `color`
OwnLine(board, color) ==
    IF color = CIRCLE THEN CircleLine(board) ELSE CrossLine(board)

OneHotCell(board, c) ==
    \/ IsCircle(board, c) /\ board[<<1, c[1], c[2]>>] = 0 /\ board[<<2, c[1], c[2]>>] = 0
    \/ IsCross(board, c) /\ board[<<0, c[1], c[2]>>] = 0 /\ board[<<2, c[1], c[2]>>] = 0
    \/ IsEmpty(board, c) /\ board[<<0, c[1], c[2]>>] = 0 /\ board[<<1, c[1], c[2]>>] = 0

\* the last call was a step on a non-terminal session with a legal action
LegalStep == ret.op = "step" /\ ~ret.pre_done /\ ret.legal

\* the last call was a step on a non-terminal session with an occupied cell
IllegalStep == ret.op = "step" /\ ~ret.pre_done /\ ~ret.legal

----------------------------------------------------------------------------
(* Claims *)

\* C1: in every reachable state each of the 9 cells has exactly one of its
\* three layers equal to 1 and the other two equal to 0.
C1_OneHot == \A c \in Cells : OneHotCell(state, c)

\* C1 witness: a legal step was answered by the opponent and the board holds
\* marks of both sides.
C1_Witness ==
    /\ player_color = CIRCLE
    /\ LegalStep
    /\ CircleMarks(state) >= 2
    /\ CrossMarks(state) >= 2
    /\ C1_OneHot

\* C2: after every reset() (the one __init__ makes included) the terminal flag
\* is false and it is the agent's turn; for agent Circle the board is empty,
\* for agent Cross it holds exactly one Circle mark and no Cross mark.
C2_ResetPost ==
    ret.op \in {"__init__", "reset"} =>
        /\ ret.fault = "none"
        /\ ~done
        /\ to_play = player_color
        /\ player_color = CIRCLE => state = EmptyBoard
        /\ player_color = CROSS =>
            /\ CircleMarks(state) = 1
            /\ CrossMarks(state) = 0
            /\ EmptyCells(state) = 8

\* C3: a legal step on a non-terminal session returns the evaluation of the
\* resulting board seen from the agent's side: a reward in {-1, 0, 1}, +1
\* exactly when the agent's side holds a line, -1 exactly when the other side
\* does; the returned done flag and the stored flag are both true exactly
\* when the evaluation is not 0.
C3_RewardMapping ==
    LegalStep =>
        /\ ret.fault = "none"
        /\ ret.reward \in {-1, 0, 1}
        /\ ret.reward = (IF player_color = CROSS THEN -game_finished(state)
                         ELSE game_finished(state))
        /\ ret.reward = 1 <=> OwnLine(state, player_color)
        /\ ret.reward = -1 <=> OwnLine(state, 1 - player_color)
        /\ ret.done <=> game_finished(state) # 0
        /\ done = ret.done

\* C3 witness: the agent completed a line and was paid +1.
C3_Witness ==
    /\ player_color = CIRCLE
    /\ LegalStep
    /\ ret.reward = 1
    /\ ret.done
    /\ OwnLine(state, player_color)

\* C4: in every reachable state with no empty cell the terminal flag is true.
C4_FullBoardTerminal == EmptyCells(state) = 0 => done

\* C5: an illegal step on a non-terminal session in "lose" mode returns
\* reward -1 and done, sets the terminal flag and leaves the board as it was,
\* whichever side the agent plays.
C5_LoseIllegal ==
    [][(~done /\ illegal_move_mode = "lose" /\ ret'.op = "step" /\ ~ret'.legal) =>
        /\ ret'.fault = "none"
        /\ ret'.reward = -1
        /\ ret'.done
        /\ done'
        /\ state' = state
        /\ to_play' = to_play]_vars

\* C5 witness: such a step has just been made on a board holding marks.
C5_Witness ==
    /\ player_color = CIRCLE
    /\ IllegalStep
    /\ illegal_move_mode = "lose"
    /\ ret.reward = -1
    /\ done
    /\ ret.pre_marks = 9 - EmptyCells(state)
    /\ ret.pre_marks >= 2

\* C6: an illegal step on a non-terminal session in "raise" mode signals an
\* IllegalMove fault and leaves the board, the turn and the flag unchanged.
C6_RaiseIllegal ==
    [][(~done /\ illegal_move_mode = "raise" /\ ret'.op = "step" /\ ~ret'.legal) =>
        /\ ret'.fault = "IllegalMove"
        /\ state' = state
        /\ to_play' = to_play
        /\ done' = done]_vars

\* C7: once the terminal flag is true, a step returns the same board, reward 0
\* and done, and the flag stays true; only reset() clears it.
C7_TerminalAbsorbing ==
    [][done =>
        \/ ret'.op = "reset"
        \/ /\ ret'.op = "step"
           /\ ret'.fault = "none"
           /\ ret'.reward = 0
           /\ ret'.done
           /\ done'
           /\ state' = state]_vars

\* C7 witness: a step was made on a session that was already terminal.
C7_Witness ==
    /\ player_color = CIRCLE
    /\ ret.op = "step"
    /\ ret.pre_done
    /\ done
    /\ ret.reward = 0

\* C8: on every one-hot board game_finished returns +1 iff Circle holds a line
\* and Cross none, -1 iff Cross holds a line and Circle none, 0 iff neither
\* holds one, and raises iff both do; the board is left as it was.
C8_Evaluate ==
    [][ret'.op = "game_finished" =>
        /\ state' = state
        /\ ret'.reward = 1 <=> (CircleLine(state) /\ ~CrossLine(state))
        /\ ret'.reward = -1 <=> (CrossLine(state) /\ ~CircleLine(state))
        /\ ret'.reward = 0 <=> (~CircleLine(state) /\ ~CrossLine(state))
        /\ ret'.fault = "Error" <=> (CircleLine(state) /\ CrossLine(state))]_vars

\* C8 witness: game_finished was applied to a board on which both sides hold
\* a line, and raised.
C8_Witness ==
    /\ ret.op = "game_finished"
    /\ CircleLine(state)
    /\ CrossLine(state)
    /\ ret.fault = "Error"

\* C9: the number of Circle marks minus the number of Cross marks is 0 or 1.
C9_Alternation == CircleMarks(state) - CrossMarks(state) \in {0, 1}

\* C9 witness: the agent, playing Circle, has just completed a line, the
\* opponent did not reply and Circle is one mark ahead.
C9_Witness ==
    /\ player_color = CIRCLE
    /\ LegalStep
    /\ done
    /\ CrossMarks(state) >= 2
    /\ CircleMarks(state) = CrossMarks(state) + 1

\* C10: get_possible_actions lists exactly the actions whose cell is empty,
\* each once, in increasing order; its length plus the marks of both sides is
\* 9; an action is listed iff valid_move accepts it.
C10_PossibleActions ==
    LET pa == get_possible_actions(state)
        listed == {pa[i] : i \in 1..Len(pa)}
    IN  /\ \A i \in 1..Len(pa), j \in 1..Len(pa) : i < j => pa[i] < pa[j]
        /\ listed = {a \in Actions : state[<<2, a \div 3, a % 3>>] = 1}
        /\ Len(pa) + CircleMarks(state) + CrossMarks(state) = 9
        /\ \A a \in Actions : a \in listed <=> valid_move(state, a)

\* C10 witness: a mid-game board with some cells taken and some free.
C10_Witness ==
    /\ player_color = CIRCLE
    /\ LegalStep
    /\ Len(get_possible_actions(state)) = 5
    /\ CircleMarks(state) = 2
    /\ CrossMarks(state) = 2

\* C11: two sessions of the same side and mode that were given the same seed
\* and then the same calls hold identical boards and flags, returned
\* identical rewards and done flags, and their generators are in the same
\* state.
C11_Determinism ==
    (constructed /\ twin.seeded) =>
        /\ state = twin.state
        /\ to_play = twin.to_play
        /\ done = twin.done
        /\ ret.reward = twin.reward
        /\ ret.done = twin.rdone
        /\ rng = twin.rng

\* C11 witness: after seeding and some steps the agent completed a line, so
\* the move the opponent's policy sampled in that step was not applied, and
\* both sessions agree.
C11_Witness ==
    /\ constructed
    /\ twin.seeded
    /\ LegalStep
    /\ ret.reward = 1
    /\ done
    /\ ret.pre_marks >= 4
    /\ state = twin.state
    /\ rng = twin.rng

\* C12: action_to_coordinate(a) = (a div 3, a mod 3) lies in 0..2 x 0..2 and
\* coordinate_to_action takes it back to a; coordinate_to_action(row, col) =
\* row*3+col lies in 0..8 and action_to_coordinate takes it back to
\* (row, col); no two actions share a cell.
C12_RoundTrip ==
    ret.op = "convert" =>
        /\ ret.to_coords \in Cells
        /\ ret.to_coords[1] * 3 + ret.to_coords[2] = ret.action
        /\ ret.to_coords[2] < 3
        /\ coordinate_to_action(ret.to_coords) = ret.action
        /\ ret.to_action \in Actions
        /\ ret.to_action = ret.coords[1] * 3 + ret.coords[2]
        /\ action_to_coordinate(ret.to_action) = ret.coords
        /\ \A b \in Actions :
            action_to_coordinate(b) = ret.to_coords => b = ret.action

\* C12 witness: both mappings were applied, to an action and to a cell that
\* lie off the diagonal and do not correspond to each other.
C12_Witness ==
    /\ ret.op = "convert"
    /\ ret.action = 5
    /\ ret.to_coords = <<1, 2>>
    /\ ret.coords = <<2, 1>>
    /\ ret.to_action = 7

\* C13: in no reachable state do Circle and Cross both hold a line, and no
\* call ends in game_finished's error.
C13_NoDoubleWin ==
    /\ ~(CircleLine(state) /\ CrossLine(state))
    /\ ret.fault # "Error"

\* C13 witness: a legal step ended with the opponent holding a line on a
\* board where the agent has three or more marks of its own.
C13_Witness ==
    /\ player_color = CIRCLE
    /\ LegalStep
    /\ CrossLine(state)
    /\ ~CircleLine(state)
    /\ CircleMarks(state) >= 3
    /\ ret.reward = -1

\* the cell of an action, and the cells held by a side
CellOf(a) == <<a \div 3, a % 3>>
Held(board, color) == {c \in Cells : board[<<color, c[1], c[2]>>] = 1}
SameCell(b1, b2, c) == \A l \in 0..2 : b1[<<l, c[1], c[2]>>] = b2[<<l, c[1], c[2]>>]

\* C14: a legal step on a non-terminal session puts the agent's mark on cell
\* a; the opponent then marks exactly one other cell, empty until then, iff
\* the agent's mark completed no line and a cell was left; every other cell
\* is as it was.
C14_OpponentReply ==
    [][(~done /\ ret'.op = "step" /\ ret'.legal /\ ret'.fault = "none") =>
        LET a == ret'.action
            me == player_color
            mine == Held(state, me) \cup {CellOf(a)}
            won == \E l \in Lines : l \subseteq mine
            replies == {c \in Cells \ {CellOf(a)} : ~SameCell(state, state', c)}
        IN  /\ IsEmpty(state, CellOf(a))
            /\ Held(state', me) = mine
            /\ state'[<<2, CellOf(a)[1], CellOf(a)[2]>>] = 0
            /\ state'[<<1 - me, CellOf(a)[1], CellOf(a)[2]>>] = 0
            /\ \A c \in replies :
                /\ IsEmpty(state, c)
                /\ state'[<<1 - me, c[1], c[2]>>] = 1
                /\ state'[<<2, c[1], c[2]>>] = 0
            /\ Cardinality(replies) =
                 (IF ~won /\ EmptyCells(state) > 1 THEN 1 ELSE 0)]_vars

\* C14 witness: the agent's mark on the noted cell was answered by one mark
\* of the opponent.
C14_Witness ==
    /\ player_color = CIRCLE
    /\ LegalStep
    /\ ret.action \in Actions
    /\ IsCircle(state, CellOf(ret.action))
    /\ 9 - EmptyCells(state) = ret.pre_marks + 2
    /\ ret.pre_marks >= 2

\* C15: between calls the turn variable of a session equals the agent's side
\* and the assertion at the start of step never fails.
C15_AgentsTurn ==
    constructed =>
        /\ to_play = player_color
        /\ ret.fault # "AssertionError"

\* C15 witness: a reset() made in the middle of an episode has returned.
C15_Witness ==
    /\ constructed
    /\ player_color = CIRCLE
    /\ ret.op = "reset"
    /\ ret.pre_marks >= 2
    /\ to_play = CIRCLE

\* C16: on every one-hot board random_policy returns None iff no cell is
\* empty, otherwise an action whose cell is empty; every empty cell can be
\* returned; the board is left as it was.
C16_RandomPolicy ==
    [][ret'.op = "random_policy" =>
        /\ state' = state
        /\ ret'.action = None <=> EmptyCells(state) = 0
        /\ ret'.action # None =>
            /\ ret'.action \in Actions
            /\ IsEmpty(state, CellOf(ret'.action))
        /\ \A c \in Cells :
            IsEmpty(state, c) => (c[1] * 3 + c[2]) \in random_policy(state)]_vars

\* C16 witness: the policy returned the last of several empty cells.
C16_Witness ==
    /\ ret.op = "random_policy"
    /\ ret.action = 8
    /\ EmptyCells(state) = 3
    /\ IsEmpty(state, <<0, 1>>)

\* C17: constructing a session completes without fault for either side, and
\* a session built for Cross already holds the opponent's opening Circle mark.
C17_ConstructionCompletes ==
    ret.op = "__init__" =>
        /\ ret.fault = "none"
        /\ constructed
        /\ opponent_policy = "random"
        /\ player_color = CROSS => CircleMarks(state) = 1

\* C18: an episode in which the agent has made 5 legal steps as Circle, or 4
\* as Cross, is terminal, and a session that is not terminal has a legal
\* action.
C18_EpisodeEnds ==
    constructed =>
        /\ Cardinality(Held(state, player_color))
             >= (IF player_color = CIRCLE THEN 5 ELSE 4) => done
        /\ ~done => \E a \in Actions : valid_move(state, a)

\* C19: across a step every cell that carried a mark carries the same mark,
\* and the number of empty cells does not grow; only reset() clears marks.
C19_MarksStay ==
    [][(\/ ret'.op = "step"
        \/ EmptyCells(state') > EmptyCells(state)
        \/ \E c \in Cells : ~IsEmpty(state, c) /\ ~SameCell(state, state', c)) =>
        /\ ret'.op = "step" \/ ret'.op = "reset"
        /\ ret'.op = "step" =>
            /\ \A c \in Cells : IsCircle(state, c) => IsCircle(state', c)
            /\ \A c \in Cells : IsCross(state, c) => IsCross(state', c)
            /\ \A c \in Cells : ~IsEmpty(state, c) => SameCell(state, state', c)
            /\ EmptyCells(state') <= EmptyCells(state)]_vars

\* C19 witness: a legal step that ended the episode was made on a board
\* holding marks of both sides, and the marks are all there.
C19_Witness ==
    /\ player_color = CIRCLE
    /\ LegalStep
    /\ done
    /\ ret.pre_marks >= 4
    /\ 9 - EmptyCells(state) > ret.pre_marks

====
